---- MODULE Spec2Model ----
(***************************************************************************)
(* Model of pkg/lint/runner.go: the worker pool (runWorkers, runWorker,    *)
(* runLinterSafe), the result processing goroutine (processLintResults,    *)
(* processIssues), the collector goroutine (collectIssues) and the         *)
(* orchestrator Runner.Run, with the shared context's cancellation.        *)
(*                                                                         *)
(* Go channels are sequences (FIFO) with a closed flag; every goroutine    *)
(* has a program counter and one action per channel operation or call.     *)
(* The workers differ only in their stopwatch name and their slot of       *)
(* workersFinishTimes, which nothing else reads: they are kept as a bag of *)
(* worker states (position, dequeued task).                                *)
(***************************************************************************)
EXTENDS Integers, Sequences, FiniteSets, Bags, TLC

\* ------------------------------------------------------------------ bounds
MaxTasks == 2          \* at most this many linter.Config entries given to Run
MaxWorkers == 2        \* lintCtx.Cfg.Run.Concurrency ranges over 1..MaxWorkers
MaxFindings == 1       \* an analyzer returns no issue or MaxFindings issues
NumProcessors == 2     \* length of Runner.Processors
MaxSpeed == 2          \* GetSpeed() ranges over 1..MaxSpeed
ScaledOutChCap == 1    \* outCh's capacity where runs must fill it (in place of 64)

\* ------------------------------------------------------- program constants
OutChCap == 64         \* make(chan lintRes, 64)
RetIssuesCap == 1024   \* make(chan result.Issue, 1024)

\* ------------------------------------------------------------------ values
NoErr == "nil"
LinterErr == "error"
PanicErr == "panic occurred"
NoLinter == 0          \* zero value of Issue.FromLinter / of linter.Config
NoTask == [name |-> 0, speed |-> 0]
NoRes == [linter |-> NoTask, err |-> NoErr, issues |-> <<>>]

Procs == 1..NumProcessors

\* A worker's state: where it is in runWorker and the lc it has dequeued.
WState(pc, lc) == [pc |-> pc, lc |-> lc]
Selecting == WState("select", NoTask)     \* at the select
Returned == WState("done", NoTask)        \* returned from runWorker

VARIABLES
    linters,            \* the caller's []linter.Config (argument of Run)
    concurrency,        \* lintCtx.Cfg.Run.Concurrency
    cancelled,          \* ctx.Err() != nil  (ctx.Done() is closed)
    atCancel,           \* history: had a task started / finished when ctx fired
    runPc,              \* position of Runner.Run (and of runWorkers in it)
    lcs,                \* runWorkers: the sorted copy of linters
    sent,               \* runWorkers: number of lcs entries put on tasksCh
    deadlineSeen,       \* Run: the branch taken at "if ctx.Err() != nil"
    finishedLintersN,   \* Run: the drain loop's counter
    errLog,             \* r.Log.Errorf calls: <<[finished, total]>>
    tasksCh, tasksClosed,
    workers,            \* bag of worker states [pc, lc]: position, the dequeued lc
    wg,                 \* sync.WaitGroup counter
    waiterPc,           \* the goroutine of runWorkers that waits and closes
    stale,              \* history: tasks dequeued when ctx had already fired
    executed,           \* history: per task name, the number of Linter.Run calls
    lintResultsCh, lintResultsClosed,
    pubCount,           \* history: per task name, the number of lintRes sent for it
    rawKind,            \* history: per task name, what its lintRes carried
    pPc, pRes, pi, pErr,\* processing goroutine: position, res, loop index, err
    procCalls,          \* per processor: number of Process calls
    nChain,             \* number of records handed to processIssues
    finishLog,          \* processors on which Finish was called, in call order
    outCap,             \* capacity of outCh
    outCh, outClosed,
    processedLog,       \* history: every lintRes sent on outCh
    cPc,                \* collector goroutine: position
    retIssues, retClosed \* the stream Run returns: issues sent so far, closed

vars == <<linters, concurrency, outCap, cancelled, atCancel, runPc, lcs, sent,
          deadlineSeen, finishedLintersN, errLog, tasksCh, tasksClosed,
          workers, wg, waiterPc, stale, executed,
          lintResultsCh, lintResultsClosed, pubCount, rawKind,
          pPc, pRes, pi, pErr, procCalls, nChain, finishLog,
          outCh, outClosed, processedLog, cPc, retIssues, retClosed>>

runVars == <<runPc, lcs, sent, deadlineSeen, finishedLintersN, errLog>>
workerVars == <<workers, wg, stale, executed>>
pipeVars == <<pPc, pRes, pi, pErr, procCalls, nChain, finishLog>>
collVars == <<cPc, retIssues, retClosed>>
inputVars == <<linters, concurrency, outCap>>
ctxVars == <<cancelled, atCancel>>

\* ----------------------------------------------------------------- helpers
Range(s) == {s[i] : i \in DOMAIN s}

\* The issues an analyzer named n reports: k findings, each with its own
\* text, carrying the FromLinter value tag.
Findings(n, k, tag) == [j \in 1..k |-> [text |-> <<n, j>>, FromLinter |-> tag]]

\* What lc.Linter.Run can do: return no issue or MaxFindings issues without
\* error (FromLinter left unset, for runLinterSafe to fill in), return an
\* error (along with issues, which runLinterSafe drops), or panic.
LinterOutcomes(lc) ==
    {[issues |-> Findings(lc.name, k, tag), err |-> FALSE, panicked |-> FALSE] :
        k \in {0, MaxFindings}, tag \in {NoLinter}}
    \cup {[issues |-> Findings(lc.name, MaxFindings, NoLinter), err |-> TRUE, panicked |-> FALSE]}
    \cup {[issues |-> <<>>, err |-> FALSE, panicked |-> TRUE]}

\* for _, i := range issues { i.FromLinter = lc.Linter.Name() }
\* issues is a []result.Issue: the loop variable i is a copy of the element,
\* the assignment changes the copy and the slice keeps its elements.
TagLoop(issues, name) ==
    LET i == [k \in DOMAIN issues |-> [issues[k] EXCEPT !.FromLinter = name]]
    IN  issues

\* (mutant) the issues that came with the analyzer's error are returned too
runLinterSafe_KeepIssues(lc, out) ==
    IF out.panicked THEN [issues |-> <<>>, err |-> PanicErr]
    ELSE IF out.err THEN [issues |-> out.issues, err |-> LinterErr]
    ELSE [issues |-> out.issues, err |-> NoErr]

\* runLinterSafe: (ret, err) for the analyzer's outcome out.
runLinterSafe(lc, out) ==
    IF out.panicked THEN [issues |-> <<>>, err |-> PanicErr]
    ELSE IF out.err THEN [issues |-> <<>>, err |-> LinterErr]
    ELSE [issues |-> TagLoop(out.issues, lc.name), err |-> NoErr]

\* (mutant) the copy is returned as it is
getSortedLintersConfigs_NoSort(ls) == {ls}

\* getSortedLintersConfigs: a copy of linters sorted by GetSpeed with
\* sort.Slice, which is not stable: any order of equal speeds can result.
Perms(n) == {f \in [1..n -> 1..n] : \A a, b \in 1..n : a # b => f[a] # f[b]}
getSortedLintersConfigs(ls) ==
    {ret \in {[k \in 1..Len(ls) |-> ls[f[k]]] : f \in Perms(Len(ls))} :
        \A a, b \in 1..Len(ls) : a < b => ~(ret[b].speed < ret[a].speed)}

\* ------------------------------------------------------------------- Init
\* The task lists given to Run: n analyzers, named by their place in the
\* list, the k-th with speed SpeedOf(k) (speeds repeat and are out of order).
SpeedOf(k) == (k % MaxSpeed) + 1
TaskLists ==
    {[k \in 1..n |-> [name |-> k, speed |-> SpeedOf(k)]] : n \in 0..MaxTasks}

\* Task lists with every assignment of speeds: equal speeds and every order.
SpeedLists ==
    UNION {{[k \in 1..n |-> [name |-> k, speed |-> sp[k]]] : sp \in [1..n -> 1..MaxSpeed]} :
              n \in 0..MaxTasks}

\* The state at the call of Run with one of the task lists lists, outCh being
\* made with one of the capacities caps.
Start(lists, caps) ==
    /\ linters \in lists
    /\ concurrency \in 1..MaxWorkers
    /\ outCap \in caps
    /\ cancelled = FALSE
    /\ atCancel = [started |-> FALSE, completed |-> FALSE]
    /\ runPc = "start"
    /\ lcs = <<>>
    /\ sent = 0
    /\ deadlineSeen = FALSE
    /\ finishedLintersN = 0
    /\ errLog = <<>>
    /\ tasksCh = <<>>
    /\ tasksClosed = FALSE
    /\ workers = EmptyBag
    /\ wg = 0
    /\ waiterPc = "idle"
    /\ stale = {}
    /\ executed = [n \in 1..MaxTasks |-> 0]
    /\ lintResultsCh = <<>>
    /\ lintResultsClosed = FALSE
    /\ pubCount = [n \in 1..MaxTasks |-> 0]
    /\ rawKind = [n \in 1..MaxTasks |-> "none"]
    /\ pPc = "idle"
    /\ pRes = NoRes
    /\ pi = 0
    /\ pErr = FALSE
    /\ procCalls = [p \in Procs |-> 0]
    /\ nChain = 0
    /\ finishLog = <<>>
    /\ outCh = <<>>
    /\ outClosed = FALSE
    /\ processedLog = <<>>
    /\ cPc = "idle"
    /\ retIssues = <<>>
    /\ retClosed = FALSE

Init == Start(TaskLists, {OutChCap})

\* ---------------------------------------------------------------- context
\* The deadline expires or the caller cancels: ctx.Done() is closed.
Started == {n \in DOMAIN executed : executed[n] > 0}
Published == {n \in DOMAIN pubCount : pubCount[n] > 0}
Crashed == {n \in DOMAIN rawKind : rawKind[n] = "panic"}
Cancel ==
    /\ ~cancelled
    /\ ~retClosed
    /\ cancelled' = TRUE
    /\ atCancel' = [started |-> Started # {}, completed |-> Published # {}]
    /\ UNCHANGED <<inputVars, runVars, tasksCh, tasksClosed, workerVars, waiterPc,
                   lintResultsCh, lintResultsClosed, pubCount, rawKind, pipeVars,
                   outCh, outClosed, processedLog, collVars>>

\* ------------------------------------------------------ Run and runWorkers
\* runWorkers up to the sort: the channels are made, Concurrency workers are
\* started (wg.Add(1) each) and the sorted copy of linters is taken.
RunSpawnWorkers ==
    /\ runPc = "start"
    /\ workers' = [ws \in {Selecting} |-> concurrency]
    /\ wg' = concurrency
    /\ lcs' \in getSortedLintersConfigs(linters)
    /\ runPc' = "enqueue"
    /\ UNCHANGED <<inputVars, ctxVars, sent, deadlineSeen, finishedLintersN, errLog,
                   tasksCh, tasksClosed, waiterPc, stale, executed,
                   lintResultsCh, lintResultsClosed, pubCount, rawKind, pipeVars,
                   outCh, outClosed, processedLog, collVars>>

\* (mutant) the channels are made one slot short
ChanCap_OneLess(ls) == Len(ls) - 1

\* make(chan linter.Config, len(linters)), make(chan lintRes, len(linters))
ChanCap(ls) == Len(ls)

\* for _, lc := range lcs { tasksCh <- lc }: tasksCh has capacity len(linters)
RunEnqueue ==
    /\ runPc = "enqueue"
    /\ sent < Len(lcs)
    /\ Len(tasksCh) < ChanCap(linters)
    /\ tasksCh' = Append(tasksCh, lcs[sent + 1])
    /\ sent' = sent + 1
    /\ UNCHANGED <<inputVars, ctxVars, runPc, lcs, deadlineSeen, finishedLintersN,
                   errLog, tasksClosed, workerVars, waiterPc,
                   lintResultsCh, lintResultsClosed, pubCount, rawKind, pipeVars,
                   outCh, outClosed, processedLog, collVars>>

\* close(tasksCh); go func() { wg.Wait(); close(lintResultsCh); ... }()
RunCloseTasks ==
    /\ runPc = "enqueue"
    /\ sent = Len(lcs)
    /\ tasksClosed' = TRUE
    /\ waiterPc' = "wait"
    /\ runPc' = "process"
    /\ UNCHANGED <<inputVars, ctxVars, lcs, sent, deadlineSeen, finishedLintersN,
                   errLog, tasksCh, workerVars,
                   lintResultsCh, lintResultsClosed, pubCount, rawKind, pipeVars,
                   outCh, outClosed, processedLog, collVars>>

\* processLintResults: outCh is made and the processing goroutine started.
RunStartProcessing ==
    /\ runPc = "process"
    /\ pPc' = "recv"
    /\ runPc' = "check"
    /\ UNCHANGED <<inputVars, ctxVars, lcs, sent, deadlineSeen, finishedLintersN,
                   errLog, tasksCh, tasksClosed, workerVars, waiterPc,
                   lintResultsCh, lintResultsClosed, pubCount, rawKind,
                   pRes, pi, pErr, procCalls, nChain, finishLog,
                   outCh, outClosed, processedLog, collVars>>

\* if ctx.Err() != nil { finishedLintersN := 0; ... }
RunCheck ==
    /\ runPc = "check"
    /\ deadlineSeen' = cancelled
    /\ finishedLintersN' = 0
    /\ runPc' = IF cancelled THEN "drain" ELSE "collect"
    /\ UNCHANGED <<inputVars, ctxVars, lcs, sent, errLog, tasksCh, tasksClosed,
                   workerVars, waiterPc, lintResultsCh, lintResultsClosed, pubCount, rawKind,
                   pipeVars, outCh, outClosed, processedLog, collVars>>

\* for range processedLintResultsCh { finishedLintersN++ }: one received value
RunDrain ==
    /\ runPc = "drain"
    /\ outCh # <<>>
    /\ outCh' = Tail(outCh)
    /\ finishedLintersN' = finishedLintersN + 1
    /\ UNCHANGED <<inputVars, ctxVars, runPc, lcs, sent, deadlineSeen, errLog,
                   tasksCh, tasksClosed, workerVars, waiterPc,
                   lintResultsCh, lintResultsClosed, pubCount, rawKind, pipeVars,
                   outClosed, processedLog, collVars>>

\* (mutant) the drain stops as soon as the channel has nothing to give
DrainEnds_Empty(ch, closed) == ch = <<>>

\* for range processedLintResultsCh: the loop ends when the channel is closed
\* and everything sent on it has been received
DrainEnds(ch, closed) == ch = <<>> /\ closed

\* (mutant) the two arguments of the report are swapped
DeadlineReport_Swapped(finished, total) == [finished |-> total, total |-> finished]

\* the range loop ends on the closed, empty channel; r.Log.Errorf("%d/%d
\* linters finished: deadline exceeded ...", finishedLintersN, len(linters))
DeadlineReport(finished, total) == [finished |-> finished, total |-> total]
RunReport ==
    /\ runPc = "drain"
    /\ DrainEnds(outCh, outClosed)
    /\ errLog' = Append(errLog, DeadlineReport(finishedLintersN, Len(linters)))
    /\ runPc' = "collect"
    /\ UNCHANGED <<inputVars, ctxVars, lcs, sent, deadlineSeen, finishedLintersN,
                   tasksCh, tasksClosed, workerVars, waiterPc,
                   lintResultsCh, lintResultsClosed, pubCount, rawKind, pipeVars,
                   outCh, outClosed, processedLog, collVars>>

\* (mutant) the collector goroutine is started once outCh has been closed
RunCollect_AfterClose ==
    /\ runPc = "collect"
    /\ outClosed
    /\ cPc' = "recv"
    /\ runPc' = "returned"
    /\ UNCHANGED <<inputVars, ctxVars, lcs, sent, deadlineSeen, finishedLintersN,
                   errLog, tasksCh, tasksClosed, workerVars, waiterPc,
                   lintResultsCh, lintResultsClosed, pubCount, rawKind, pipeVars,
                   outCh, outClosed, processedLog, retIssues, retClosed>>

\* return collectIssues(ctx, processedLintResultsCh): the collector goroutine
\* is started on the channel and the issue channel is returned.
RunCollect ==
    /\ runPc = "collect"
    /\ cPc' = "recv"
    /\ runPc' = "returned"
    /\ UNCHANGED <<inputVars, ctxVars, lcs, sent, deadlineSeen, finishedLintersN,
                   errLog, tasksCh, tasksClosed, workerVars, waiterPc,
                   lintResultsCh, lintResultsClosed, pubCount, rawKind, pipeVars,
                   outCh, outClosed, processedLog, retIssues, retClosed>>

\* ---------------------------------------------------------------- workers
\* (mutant) a receive that leaves the value on the channel
Recv_Peek(ch) == [val |-> Head(ch), rest |-> ch]

\* A receive from a channel: the value taken and what the channel keeps.
Recv(ch) == [val |-> Head(ch), rest |-> Tail(ch)]

\* One worker goes from state ws to state to.
Move(ws, to) == (workers (-) SetToBag({ws})) (+) SetToBag({to})

\* select { case <-ctx.Done(): return }   (defer wg.Done())
WorkerCtxDone(ws) ==
    /\ ws.pc = "select"
    /\ cancelled
    /\ workers' = Move(ws, Returned)
    /\ wg' = wg - 1
    /\ UNCHANGED <<inputVars, ctxVars, runVars, tasksCh, tasksClosed,
                   waiterPc, stale, executed, lintResultsCh, lintResultsClosed,
                   pubCount, rawKind, pipeVars, outCh, outClosed, processedLog, collVars>>

\* select { case lc, ok := <-tasksCh: } with ok: a task is dequeued. Go picks
\* among the ready cases at random, so this case can be taken after ctx fired.
WorkerDequeue(ws) ==
    /\ ws.pc = "select"
    /\ tasksCh # <<>>
    /\ workers' = Move(ws, WState("check", Recv(tasksCh).val))
    /\ tasksCh' = Recv(tasksCh).rest
    /\ stale' = IF cancelled THEN stale \cup {Recv(tasksCh).val.name} ELSE stale
    /\ UNCHANGED <<inputVars, ctxVars, runVars, tasksClosed, wg, waiterPc,
                   executed, lintResultsCh, lintResultsClosed, pubCount, rawKind,
                   pipeVars, outCh, outClosed, processedLog, collVars>>

\* (mutant) the worker returns when tasksCh is empty, closed or not
WorkerTasksClosed_Default(ws) ==
    /\ ws.pc = "select"
    /\ tasksCh = <<>>
    /\ workers' = Move(ws, Returned)
    /\ wg' = wg - 1
    /\ UNCHANGED <<inputVars, ctxVars, runVars, tasksCh, tasksClosed,
                   waiterPc, stale, executed, lintResultsCh, lintResultsClosed,
                   pubCount, rawKind, pipeVars, outCh, outClosed, processedLog, collVars>>

\* case lc, ok := <-tasksCh: if !ok { return }
WorkerTasksClosed(ws) ==
    /\ ws.pc = "select"
    /\ tasksCh = <<>>
    /\ tasksClosed
    /\ workers' = Move(ws, Returned)
    /\ wg' = wg - 1
    /\ UNCHANGED <<inputVars, ctxVars, runVars, tasksCh, tasksClosed,
                   waiterPc, stale, executed, lintResultsCh, lintResultsClosed,
                   pubCount, rawKind, pipeVars, outCh, outClosed, processedLog, collVars>>

\* (mutant) the context is looked at in the select only
StartsTask_SelectOnly(ctxErr) == TRUE

\* if ctx.Err() != nil { return }: whether the worker goes on to run lc
StartsTask(ctxErr) == ~ctxErr
WorkerCheck(ws) ==
    /\ ws.pc = "check"
    /\ IF StartsTask(cancelled)
       THEN /\ workers' = Move(ws, WState("run", ws.lc))
            /\ executed' = [executed EXCEPT ![ws.lc.name] = @ + 1]
            /\ UNCHANGED wg
       ELSE /\ workers' = Move(ws, Returned)
            /\ wg' = wg - 1
            /\ UNCHANGED executed
    /\ UNCHANGED <<inputVars, ctxVars, runVars, tasksCh, tasksClosed,
                   waiterPc, stale, lintResultsCh, lintResultsClosed,
                   pubCount, rawKind, pipeVars, outCh, outClosed, processedLog, collVars>>

\* What a lintRes carries: a panic, an analyzer's error, no issue, issues.
Kind(res) ==
    IF res.err = PanicErr THEN "panic"
    ELSE IF res.err # NoErr THEN "error"
    ELSE IF res.issues = <<>> THEN "empty"
    ELSE "issues"

\* (mutant) the worker runs the first processor on its issues before the send
WorkerRun_Processes(ws) ==
    /\ ws.pc = "run"
    /\ Len(lintResultsCh) < ChanCap(linters)
    /\ ~lintResultsClosed
    /\ \E out \in LinterOutcomes(ws.lc) :
          LET r == runLinterSafe(ws.lc, out)
              res == [linter |-> ws.lc, err |-> r.err, issues |-> r.issues]
          IN  /\ lintResultsCh' = Append(lintResultsCh, res)
              /\ pubCount' = [pubCount EXCEPT ![ws.lc.name] = @ + 1]
              /\ rawKind' = [rawKind EXCEPT ![ws.lc.name] = Kind(res)]
              /\ workers' = Move(ws, Selecting)
    /\ procCalls' = [procCalls EXCEPT ![1] = @ + 1]
    /\ UNCHANGED <<inputVars, ctxVars, runVars, tasksCh, tasksClosed, wg,
                   waiterPc, stale, executed, lintResultsClosed,
                   pPc, pRes, pi, pErr, nChain, finishLog,
                   outCh, outClosed, processedLog, collVars>>

\* issues, err = r.runLinterSafe(ctx, lintCtx, lc) returns and the worker
\* sends lintRes{linter: lc, err: err, issues: issues} on lintResultsCh
\* (capacity len(linters)); then the loop goes back to the select.
\* A send on a closed channel panics.
WorkerRun(ws) ==
    /\ ws.pc = "run"
    /\ Len(lintResultsCh) < ChanCap(linters) \/ lintResultsClosed
    /\ \E out \in LinterOutcomes(ws.lc) :
          LET r == runLinterSafe(ws.lc, out)
              res == [linter |-> ws.lc, err |-> r.err, issues |-> r.issues]
          IN  IF lintResultsClosed
              THEN /\ workers' = Move(ws, WState("panic", NoTask))
                   /\ UNCHANGED <<lintResultsCh, pubCount, rawKind>>
              ELSE /\ lintResultsCh' = Append(lintResultsCh, res)
                   /\ pubCount' = [pubCount EXCEPT ![ws.lc.name] = @ + 1]
                   /\ rawKind' = [rawKind EXCEPT ![ws.lc.name] = Kind(res)]
                   /\ workers' = Move(ws, Selecting)
    /\ UNCHANGED <<inputVars, ctxVars, runVars, tasksCh, tasksClosed, wg,
                   waiterPc, stale, executed, lintResultsClosed,
                   pipeVars, outCh, outClosed, processedLog, collVars>>

\* (mutant) the wait is over while one worker has yet to call wg.Done()
WaitReturns_OneLeft(n) == n <= 1

\* wg.Wait() returns when the counter is zero
WaitReturns(n) == n = 0

\* wg.Wait(); close(lintResultsCh)
WaiterClose ==
    /\ waiterPc = "wait"
    /\ WaitReturns(wg)
    /\ lintResultsClosed' = TRUE
    /\ waiterPc' = "done"
    /\ UNCHANGED <<inputVars, ctxVars, runVars, tasksCh, tasksClosed, workerVars,
                   lintResultsCh, pubCount, rawKind, pipeVars,
                   outCh, outClosed, processedLog, collVars>>

\* ----------------------------------------------- processing goroutine
\* What p.Process(issues) can return: the issues as they are, the issues
\* without the first one, or none (a nil slice, which processIssues turns into
\* an empty one; both are the empty sequence here), each without error; or a
\* failure, which comes with a nil slice.
ProcessOutcomes(issues) ==
    {[newIssues |-> x, err |-> FALSE] :
        x \in {issues, <<>>} \cup (IF issues = <<>> THEN {} ELSE {Tail(issues)})}
    \cup {[newIssues |-> <<>>, err |-> TRUE]}

\* (mutant) the processor's result is taken whether it failed or not
processStep_TakeResult(issues, newIssues, err) == newIssues

\* processIssues, one iteration: if err != nil { Warnf } else { issues =
\* newIssues }; if issues == nil { issues = []result.Issue{} }
processStep(issues, newIssues, err) == IF err THEN issues ELSE newIssues

\* (mutant) a res without issues is handed on like any other
Disposition_NoLenCheck(res) == IF res.err # NoErr THEN "skip" ELSE "chain"

\* (mutant) every res received is handed to the chain and sent on
Disposition_ChainAll(res) == "chain"

\* the range over inCh: what becomes of a received res
\* ("skip": continue, "chain": processIssues and outCh <- res)
Disposition(res) ==
    IF res.err # NoErr THEN "skip"
    ELSE IF Len(res.issues) # 0 THEN "chain"
    ELSE "skip"

\* for res := range inCh: one value is received
PipeRecv ==
    /\ pPc = "recv"
    /\ lintResultsCh # <<>>
    /\ lintResultsCh' = Tail(lintResultsCh)
    /\ IF Disposition(Head(lintResultsCh)) = "chain"
       THEN /\ pRes' = Head(lintResultsCh)
            /\ pPc' = "proc"
            /\ pi' = 1
            /\ nChain' = nChain + 1
       ELSE /\ pRes' = NoRes
            /\ UNCHANGED <<pPc, pi, nChain>>
    /\ pErr' = FALSE
    /\ UNCHANGED <<inputVars, ctxVars, runVars, tasksCh, tasksClosed, workerVars,
                   waiterPc, lintResultsClosed, pubCount, rawKind, procCalls, finishLog,
                   outCh, outClosed, processedLog, collVars>>

\* processIssues: newIssues, err = p.Process(issues) for p = r.Processors[pi]
PipeProcess ==
    /\ pPc = "proc"
    /\ \E out \in ProcessOutcomes(pRes.issues) :
          /\ pRes' = [pRes EXCEPT !.issues = processStep(pRes.issues, out.newIssues, out.err)]
          /\ pErr' = out.err
    /\ procCalls' = [procCalls EXCEPT ![pi] = @ + 1]
    /\ IF pi < NumProcessors
       THEN pi' = pi + 1 /\ pPc' = pPc
       ELSE pi' = 0 /\ pPc' = "send"
    /\ UNCHANGED <<inputVars, ctxVars, runVars, tasksCh, tasksClosed, workerVars,
                   waiterPc, lintResultsCh, lintResultsClosed, pubCount, rawKind, nChain,
                   finishLog, outCh, outClosed, processedLog, collVars>>

\* outCh <- res   (capacity 64)
PipeSend ==
    /\ pPc = "send"
    /\ Len(outCh) < outCap
    /\ outCh' = Append(outCh, pRes)
    /\ processedLog' = Append(processedLog, pRes)
    /\ pPc' = "recv"
    /\ pRes' = NoRes
    /\ pErr' = FALSE
    /\ UNCHANGED <<inputVars, ctxVars, runVars, tasksCh, tasksClosed, workerVars,
                   waiterPc, lintResultsCh, lintResultsClosed, pubCount, rawKind,
                   pi, procCalls, nChain, finishLog, outClosed, collVars>>

\* (mutant) outCh is closed at the end of the range, before the Finish loop
PipeInputClosed_CloseFirst ==
    /\ pPc = "recv"
    /\ lintResultsCh = <<>>
    /\ lintResultsClosed
    /\ pPc' = "finish"
    /\ pi' = 1
    /\ outClosed' = TRUE
    /\ UNCHANGED <<inputVars, ctxVars, runVars, tasksCh, tasksClosed, workerVars,
                   waiterPc, lintResultsCh, lintResultsClosed, pubCount, rawKind,
                   pRes, pErr, procCalls, nChain, finishLog,
                   outCh, processedLog, collVars>>

\* the range over inCh ends: inCh is closed and empty
PipeInputClosed ==
    /\ pPc = "recv"
    /\ lintResultsCh = <<>>
    /\ lintResultsClosed
    /\ pPc' = "finish"
    /\ pi' = 1
    /\ UNCHANGED <<inputVars, ctxVars, runVars, tasksCh, tasksClosed, workerVars,
                   waiterPc, lintResultsCh, lintResultsClosed, pubCount, rawKind,
                   pRes, pErr, procCalls, nChain, finishLog,
                   outCh, outClosed, processedLog, collVars>>

\* (mutant) the Finish loop steps over every other processor
NextProcessor_Skip(k) == k + 2

\* for _, p := range r.Processors { p.Finish() }: the processor the loop
\* visits after the one at index k
NextProcessor(k) == k + 1
PipeFinish ==
    /\ pPc = "finish"
    /\ finishLog' = Append(finishLog, pi)
    /\ IF NextProcessor(pi) \in Procs
       THEN pi' = NextProcessor(pi) /\ pPc' = pPc
       ELSE pi' = 0 /\ pPc' = "close"
    /\ UNCHANGED <<inputVars, ctxVars, runVars, tasksCh, tasksClosed, workerVars,
                   waiterPc, lintResultsCh, lintResultsClosed, pubCount, rawKind,
                   pRes, pErr, procCalls, nChain,
                   outCh, outClosed, processedLog, collVars>>

\* sw.PrintStages(); defer close(outCh)
PipeClose ==
    /\ pPc = "close"
    /\ outClosed' = TRUE
    /\ pPc' = "done"
    /\ UNCHANGED <<inputVars, ctxVars, runVars, tasksCh, tasksClosed, workerVars,
                   waiterPc, lintResultsCh, lintResultsClosed, pubCount, rawKind,
                   pRes, pi, pErr, procCalls, nChain, finishLog,
                   outCh, processedLog, collVars>>

\* ------------------------------------------------------ collector goroutine
\* for res := range resCh { if len(res.issues) == 0 { continue }
\*   for _, i := range res.issues { retIssues <- i } }   (capacity 1024)
CollectRecv ==
    /\ cPc = "recv"
    /\ outCh # <<>>
    /\ Len(retIssues) + Len(Head(outCh).issues) <= RetIssuesCap
    /\ outCh' = Tail(outCh)
    /\ retIssues' = IF Len(Head(outCh).issues) = 0 THEN retIssues
                    ELSE retIssues \o Head(outCh).issues
    /\ UNCHANGED <<inputVars, ctxVars, runVars, tasksCh, tasksClosed, workerVars,
                   waiterPc, lintResultsCh, lintResultsClosed, pubCount, rawKind, pipeVars,
                   outClosed, processedLog, cPc, retClosed>>

\* the range over resCh ends; defer close(retIssues)
CollectClose ==
    /\ cPc = "recv"
    /\ outCh = <<>>
    /\ outClosed
    /\ retClosed' = TRUE
    /\ cPc' = "done"
    /\ UNCHANGED <<inputVars, ctxVars, runVars, tasksCh, tasksClosed, workerVars,
                   waiterPc, lintResultsCh, lintResultsClosed, pubCount, rawKind, pipeVars,
                   outCh, outClosed, processedLog, retIssues>>

\* ------------------------------------------------------------ specification
Next ==
    \/ Cancel
    \/ RunSpawnWorkers
    \/ RunEnqueue
    \/ RunCloseTasks
    \/ RunStartProcessing
    \/ RunCheck
    \/ RunDrain
    \/ RunReport
    \/ RunCollect
    \/ \E ws \in BagToSet(workers) : WorkerCtxDone(ws)
    \/ \E ws \in BagToSet(workers) : WorkerDequeue(ws)
    \/ \E ws \in BagToSet(workers) : WorkerTasksClosed(ws)
    \/ \E ws \in BagToSet(workers) : WorkerCheck(ws)
    \/ \E ws \in BagToSet(workers) : WorkerRun(ws)
    \/ WaiterClose
    \/ PipeRecv
    \/ PipeProcess
    \/ PipeSend
    \/ PipeInputClosed
    \/ PipeFinish
    \/ PipeClose
    \/ CollectRecv
    \/ CollectClose

Spec == Init /\ [][Next]_vars

\* Run with the scheduler's guarantee: a goroutine that can take a step is
\* not left waiting for ever (ctx may fire or not: Cancel is under no
\* obligation). Besides its capacity of 64, outCh is given a capacity that
\* MaxTasks results exceed, so that the processing goroutine does block on a
\* full outCh, as it does with more than 64 results.
Progress ==
    \/ RunSpawnWorkers \/ RunEnqueue \/ RunCloseTasks \/ RunStartProcessing
    \/ RunCheck \/ RunDrain \/ RunReport \/ RunCollect
    \/ \E ws \in BagToSet(workers) :
          \/ WorkerCtxDone(ws) \/ WorkerDequeue(ws) \/ WorkerTasksClosed(ws)
          \/ WorkerCheck(ws) \/ WorkerRun(ws)
    \/ WaiterClose
    \/ PipeRecv \/ PipeProcess \/ PipeSend \/ PipeInputClosed \/ PipeFinish \/ PipeClose
    \/ CollectRecv \/ CollectClose
LiveInit == Start(TaskLists, {ScaledOutChCap, OutChCap})
LiveSpec == LiveInit /\ [][Next]_vars /\ WF_vars(Progress)

\* runWorkers alone (the workers, the dispatch of the tasks and the close of
\* lintResultsCh, which nothing downstream can hold up), on task lists with
\* every assignment of speeds.
DispatchInit == Start(SpeedLists, {OutChCap})
DispatchNext ==
    \/ Cancel
    \/ RunSpawnWorkers
    \/ RunEnqueue
    \/ RunCloseTasks
    \/ \E ws \in BagToSet(workers) : WorkerCtxDone(ws)
    \/ \E ws \in BagToSet(workers) : WorkerDequeue(ws)
    \/ \E ws \in BagToSet(workers) : WorkerTasksClosed(ws)
    \/ \E ws \in BagToSet(workers) : WorkerCheck(ws)
    \/ \E ws \in BagToSet(workers) : WorkerRun(ws)
    \/ WaiterClose
DispatchSpec == DispatchInit /\ [][DispatchNext]_vars

\* runWorkers alone, on the task lists of Init.
PoolSpec == Init /\ [][DispatchNext]_vars

TypeOK ==
    /\ cancelled \in BOOLEAN
    /\ outCap \in {OutChCap, ScaledOutChCap}
    /\ runPc \in {"start", "enqueue", "process", "check", "drain", "collect", "returned"}
    /\ IsABag(workers)
    /\ \A ws \in BagToSet(workers) : ws.pc \in {"select", "check", "run", "done", "panic"}
    /\ BagCardinality(workers) \in {0, concurrency}
    /\ pPc \in {"idle", "recv", "proc", "send", "finish", "close", "done"}
    /\ cPc \in {"idle", "recv", "done"}
    /\ wg \in 0..MaxWorkers
    /\ Len(tasksCh) <= Len(linters)
    /\ Len(lintResultsCh) <= Len(linters)

\* ------------------------------------------------------------------ claims
Tasks == 1..Len(linters)
\* every issue of every lintRes sent on outCh
ProcessedIssues == UNION {Range(processedLog[i].issues) : i \in DOMAIN processedLog}
TheReport(finished) == <<[finished |-> finished, total |-> Len(linters)]>>

\* C1: when Run saw at its check that the deadline had fired, then, once the
\* stream Run returns is closed, every issue of every lintRes the processing
\* goroutine sent on outCh has been delivered on that stream.
C1_DeadlineKeepsFindings ==
    (retClosed /\ deadlineSeen) => ProcessedIssues \subseteq Range(retIssues)

\* C2: once the returned stream is closed, it holds no issue of an analyzer
\* that panicked, it holds every issue that the chain left of the analyzers
\* that did not panic, and, cancellation aside, a panic stopped no worker:
\* every task has its lintRes.
C2_Isolation ==
    retClosed =>
        /\ \A i \in DOMAIN retIssues : retIssues[i].text[1] \notin Crashed
        /\ ProcessedIssues \subseteq Range(retIssues)
        /\ ~cancelled => \A n \in Tasks : pubCount[n] = 1

\* C3: every issue of a lintRes without error on lintResultsCh carries the
\* name of the analyzer of that lintRes in FromLinter.
C3_Tagged ==
    \A i \in DOMAIN lintResultsCh :
        lintResultsCh[i].err = NoErr =>
            \A k \in DOMAIN lintResultsCh[i].issues :
                lintResultsCh[i].issues[k].FromLinter = lintResultsCh[i].linter.name

\* C4: Finish is called on the processors in chain order, on each at most
\* once, on none before the last Process call has returned (the input is
\* closed and empty and every record handed to the chain has been through
\* every processor), and on all of them before the goroutine closes outCh,
\* whatever the number of records and whether or not ctx fired.
C4_FinishOnce ==
    /\ finishLog = [k \in 1..Len(finishLog) |-> k]
    /\ Len(finishLog) <= NumProcessors
    /\ finishLog # <<>> =>
          /\ lintResultsCh = <<>> /\ lintResultsClosed
          /\ \A p \in Procs : procCalls[p] = nChain
          /\ pPc \in {"finish", "close", "done"}
    /\ pPc = "finish" => Len(finishLog) = pi - 1
    /\ pPc \in {"close", "done"} => Len(finishLog) = NumProcessors
    /\ outClosed => pPc = "done"

C4_Witness ==
    /\ pPc = "done"
    /\ cancelled
    /\ nChain >= 1
    /\ nChain < Len(linters)
    /\ Len(finishLog) = NumProcessors

\* C5: a Process call that fails leaves the record's issues as they were
\* passed into it; the processors after it are still called on the record
\* (procCalls grows by one at the index the loop is at, and the loop moves to
\* the next index or, after the last, to the send), and every processor is
\* called once for each record handed to the chain, before as after a failure.
ProcessCallStep == pPc = "proc" /\ procCalls' # procCalls
C5_FailOpen ==
    /\ [][ProcessCallStep =>
            /\ pErr' => pRes'.issues = pRes.issues
            /\ pRes'.linter = pRes.linter
            /\ procCalls' = [procCalls EXCEPT ![pi] = @ + 1]
            /\ IF pi < NumProcessors THEN pPc' = "proc" /\ pi' = pi + 1
                                     ELSE pPc' = "send"]_vars
    /\ [](\A p \in Procs :
            procCalls[p] = IF pPc = "proc" /\ p >= pi THEN nChain - 1 ELSE nChain)

C5_Witness ==
    /\ pPc = "proc"
    /\ pi = 2
    /\ pErr
    /\ nChain = 2
    /\ pRes.issues # <<>>

\* C6 as stated: in a run where ctx fired before any task had completed, the
\* returned stream ends empty and one report, 0 out of N, was logged. (Read
\* in the claim's favour: only the runs where Run saw the fired ctx at its
\* check, the others log no report at all.)
C6_Original ==
    (retClosed /\ deadlineSeen /\ ~atCancel.completed) =>
        retIssues = <<>> /\ errLog = TheReport(0)

\* C6 amended: in a run where ctx fired before any task had begun to
\* execute, the returned stream stays empty and no report other than 0 out
\* of N is logged; and when Run saw the fired ctx at its check, that report
\* is logged, once, before Run returns.
C6_DeadlineBeforeStart ==
    (cancelled /\ ~atCancel.started) =>
        /\ retIssues = <<>>
        /\ errLog \in {<<>>, TheReport(0)}
        /\ (deadlineSeen /\ runPc \in {"collect", "returned"}) => errLog = TheReport(0)

C6_Witness ==
    /\ retClosed
    /\ cancelled
    /\ ~atCancel.started
    /\ deadlineSeen
    /\ Len(linters) = MaxTasks
    /\ errLog = TheReport(0)

\* C7 as stated: no lintRes sent on outCh has an empty issue list or an error.
C7_Original ==
    \A i \in DOMAIN processedLog :
        processedLog[i].issues # <<>> /\ processedLog[i].err = NoErr

\* C7 amended: no lintRes sent on outCh has an error or comes from a lintRes
\* that was received with no issue; a record whose issues the chain reduced
\* to none is sent on (with an empty list), so the number of records sent is
\* the number of lintRes that carried issues and have been through the chain.
C7_NoErroredOrEmptyRaw ==
    /\ \A i \in DOMAIN processedLog :
          /\ processedLog[i].err = NoErr
          /\ rawKind[processedLog[i].linter.name] = "issues"
    /\ pPc \in {"finish", "close", "done"} =>
          Len(processedLog) = Cardinality({n \in Tasks : rawKind[n] = "issues"})

C7_Witness ==
    /\ pPc = "done"
    /\ \E n \in Tasks : rawKind[n] \in {"error", "panic", "empty"}
    /\ \E i \in DOMAIN processedLog : processedLog[i].issues = <<>>

\* C8: every task is run at most once and has at most one lintRes, sent by
\* the one worker that dequeued it: a task is never at two places (on
\* tasksCh, held by a worker) at once, nor held or queued once it was sent.
Count(S) == BagCardinality([ws \in S |-> workers[ws]])
Holders(n) == Count({ws \in BagToSet(workers) : ws.lc.name = n})
Queued(n) == Cardinality({i \in DOMAIN tasksCh : tasksCh[i].name = n})
AllReturned == workers = [ws \in {Returned} |-> concurrency]
C8_AtMostOneResult ==
    \A n \in 1..MaxTasks :
        /\ executed[n] <= 1
        /\ pubCount[n] <= executed[n]
        /\ Holders(n) + Queued(n) + pubCount[n] <= 1

C8_Witness ==
    /\ concurrency >= 2
    /\ Len(linters) >= 2
    /\ cancelled
    /\ AllReturned
    /\ \A n \in Tasks : pubCount[n] = 1

\* C9: when lintResultsCh is closed and ctx has not fired, every task has
\* exactly one lintRes: as many were sent as tasks were given, whether the
\* analyzers returned issues, returned an error or panicked.
C9_OneResultPerTask ==
    (lintResultsClosed /\ ~cancelled) =>
        \A n \in 1..MaxTasks : pubCount[n] = IF n \in Tasks THEN 1 ELSE 0

C9_Witness ==
    /\ lintResultsClosed
    /\ ~cancelled
    /\ Len(linters) = MaxTasks
    /\ \E n \in Tasks : rawKind[n] = "panic"
    /\ \E n \in Tasks : rawKind[n] = "error"

\* C10: a task dequeued after ctx fired is never run and never has a
\* lintRes, and the worker that dequeued it returns at its check (a worker
\* that returned takes nothing more); a worker that is running a task leaves
\* it only by sending the task's lintRes, which ctx firing does not prevent,
\* so when all workers have returned every task begun has its lintRes.
At(pc) == Count({ws \in BagToSet(workers) : ws.pc = pc})
C10_Cooperative ==
    /\ [](\A n \in stale : executed[n] = 0 /\ pubCount[n] = 0)
    /\ [](At("run") > 0 => Len(lintResultsCh) < Len(linters) /\ ~lintResultsClosed)
    /\ [](AllReturned => \A n \in 1..MaxTasks : pubCount[n] = executed[n])
    /\ [][/\ (cancelled /\ At("check")' < At("check")) =>
                /\ At("done")' = At("done") + 1
                /\ executed' = executed
                /\ pubCount' = pubCount
          /\ At("done")' >= At("done")
          /\ At("run")' < At("run") =>
                \E ws \in BagToSet(workers) :
                    /\ ws.pc = "run"
                    /\ workers' = Move(ws, Selecting)
                    /\ pubCount' = [pubCount EXCEPT ![ws.lc.name] = @ + 1]]_vars

C10_Witness ==
    /\ stale # {}
    /\ atCancel.started
    /\ ~atCancel.completed
    /\ Published # {}
    /\ AllReturned

\* C11: a deadline report is logged only by a Run that saw the fired ctx at
\* its check, and only when outCh is closed and everything sent on it has
\* been received; the finished count it gives is the number of lintRes the
\* processing goroutine sent on outCh, which is at most the total it gives,
\* the number of tasks. During the drain every lintRes sent is either counted
\* or still on outCh, and a Run that saw the fired ctx logs the report before
\* it goes on to collectIssues.
C11_ReportAfterDrain ==
    /\ errLog # <<>> =>
          /\ deadlineSeen
          /\ outClosed /\ outCh = <<>>
          /\ errLog = TheReport(Len(processedLog))
          /\ Len(processedLog) <= Len(linters)
    /\ runPc = "drain" =>
          /\ deadlineSeen
          /\ finishedLintersN + Len(outCh) = Len(processedLog)
    /\ (deadlineSeen /\ runPc \in {"collect", "returned"}) => errLog # <<>>

C11_Witness ==
    /\ errLog # <<>>
    /\ errLog[1].finished >= 1
    /\ errLog[1].finished < errLog[1].total

\* C12: lintResultsCh is closed only when every one of the Concurrency
\* workers has returned from runWorker: when it is closed no worker is at the
\* select, at its check or running a task (holding a lintRes it has yet to
\* send), the WaitGroup counter is zero, and no worker has ever sent on the
\* closed channel (which panics).
C12_CloseAfterWorkers ==
    /\ lintResultsClosed =>
          /\ AllReturned
          /\ \A ws \in BagToSet(workers) : ws.pc \notin {"select", "check", "run"}
          /\ wg = 0
    /\ \A ws \in BagToSet(workers) : ws.pc # "panic"
    /\ wg = concurrency - CopiesIn(Returned, workers) \/ runPc = "start"

C12_Witness ==
    /\ lintResultsClosed
    /\ concurrency = MaxWorkers
    /\ Len(linters) = MaxTasks
    /\ \A n \in Tasks : pubCount[n] = 1
    /\ lintResultsCh # <<>>

\* the issues of a sequence of lintRes, one after the other
RECURSIVE Flatten(_)
Flatten(rs) == IF rs = <<>> THEN <<>> ELSE Head(rs).issues \o Flatten(Tail(rs))

\* C13: the lintRes are sent on outCh in the order in which they arrived on
\* lintResultsCh (lintResultsCh grows at its end only, the processing
\* goroutine takes its head, holds one lintRes at a time and sends the one it
\* holds), and the returned stream is the concatenation, in the order of
\* outCh, of the issues of the lintRes sent on outCh: once collectIssues runs,
\* what it has delivered followed by what is still on outCh is everything that
\* was sent, and at the close the stream is all of it.
C13_OrderPreserved ==
    /\ [][/\ lintResultsCh' # lintResultsCh =>
                \/ lintResultsCh # <<>> /\ lintResultsCh' = Tail(lintResultsCh)
                \/ /\ Len(lintResultsCh') = Len(lintResultsCh) + 1
                   /\ SubSeq(lintResultsCh', 1, Len(lintResultsCh)) = lintResultsCh
          /\ (pPc = "recv" /\ pPc' = "proc") =>
                /\ pRes' = Head(lintResultsCh)
                /\ lintResultsCh' = Tail(lintResultsCh)
          /\ processedLog' # processedLog =>
                /\ pPc = "send"
                /\ processedLog' = Append(processedLog, pRes)
                /\ outCh' = Append(outCh, pRes)]_vars
    /\ [](cPc # "idle" => retIssues \o Flatten(outCh) = Flatten(processedLog))
    /\ [](retClosed => retIssues = Flatten(processedLog))

\* C14: the list runWorkers enqueues is a permutation of the list given to
\* Run, in non-decreasing order of speed, and the list given to Run is as it
\* was (the k-th entry is still the one named k); tasksCh always holds the
\* entries enqueued and not yet dequeued, in the order of that list (every
\* dequeue took the earliest entry enqueued), and the entries before them
\* are those a worker has dequeued: each is held by a worker at its check,
\* or was run, or was dropped at the check because ctx had fired.
Dequeued == {lcs[k].name : k \in 1..(sent - Len(tasksCh))}
Checking(n) == Count({ws \in BagToSet(workers) : ws.pc = "check" /\ ws.lc.name = n})
C14_SortedDispatch ==
    /\ \A k \in DOMAIN linters : linters[k].name = k
    /\ runPc # "start" =>
          /\ Len(lcs) = Len(linters)
          /\ \A n \in Tasks : Cardinality({k \in DOMAIN lcs : lcs[k] = linters[n]}) = 1
          /\ \A a, b \in DOMAIN lcs : a < b => lcs[a].speed <= lcs[b].speed
          /\ sent <= Len(lcs)
          /\ Len(tasksCh) <= sent
          /\ tasksCh = SubSeq(lcs, sent - Len(tasksCh) + 1, sent)
          /\ \A n \in Tasks :
                IF n \in Dequeued
                THEN \/ Checking(n) + executed[n] = 1
                     \/ cancelled /\ Holders(n) = 0 /\ executed[n] = 0
                ELSE Holders(n) = 0 /\ executed[n] = 0

C14_Witness ==
    /\ Len(linters) = MaxTasks
    /\ lcs # linters
    /\ \E a, b \in DOMAIN lcs : a # b /\ lcs[a].speed = lcs[b].speed
    /\ sent = Len(lcs)
    /\ Len(tasksCh) = 1
    /\ \A n \in Dequeued : executed[n] = 1

\* C15: with every analyzer call returning and the issue stream being
\* consumed, every run ends: Run has returned, every worker has returned,
\* tasksCh, lintResultsCh and outCh are closed, the processing and collector
\* goroutines are done and the returned stream is closed, whether or not ctx
\* fired and whether or not the results outnumber outCh's capacity.
Terminated ==
    /\ runPc = "returned"
    /\ AllReturned
    /\ tasksClosed /\ lintResultsClosed /\ outClosed
    /\ waiterPc = "done" /\ pPc = "done" /\ cPc = "done"
    /\ retClosed
C15_Terminates == <>[]Terminated

C15_Witness ==
    /\ Terminated
    /\ Len(processedLog) > outCap
    /\ cancelled
    /\ concurrency = MaxWorkers

\* C16: a lintRes enters the chain only as the one received from
\* lintResultsCh, only if it has no error and at least one issue, and the
\* first processor is given its issues as they arrived; receiving a lintRes
\* with an error or without issues makes no Process call and sends nothing.
\* The lintRes in the chain is given to each later processor as the step
\* before left it (issues of the same lintRes, in their order), and for each
\* record the processors are called once each in chain order: those before
\* the loop index have been called for it, those from the index on not yet.
WithIssues == {n \in Tasks : rawKind[n] = "issues"}
QueuedWithIssues == {i \in DOMAIN lintResultsCh : Kind(lintResultsCh[i]) = "issues"}
IsSuffix(a, b) == Len(a) <= Len(b) /\ a = SubSeq(b, Len(b) - Len(a) + 1, Len(b))
C16_ChainOnlyForFindings ==
    /\ [][/\ (pPc # "proc" /\ pPc' = "proc") =>
                /\ pPc = "recv"
                /\ lintResultsCh # <<>>
                /\ pRes' = Head(lintResultsCh)
                /\ pRes'.err = NoErr
                /\ Len(pRes'.issues) >= 1
                /\ pi' = 1
                /\ nChain' = nChain + 1
                /\ procCalls' = procCalls
          /\ (Len(lintResultsCh') < Len(lintResultsCh) /\ pPc' # "proc") =>
                /\ pPc = "recv"
                /\ Head(lintResultsCh).err # NoErr \/ Head(lintResultsCh).issues = <<>>
                /\ procCalls' = procCalls
                /\ nChain' = nChain
                /\ outCh' = outCh
          /\ (pPc = "proc" /\ procCalls' # procCalls) =>
                /\ procCalls' = [procCalls EXCEPT ![pi] = @ + 1]
                /\ IsSuffix(pRes'.issues, pRes.issues)
                /\ IF pi < NumProcessors THEN pPc' = "proc" /\ pi' = pi + 1
                                         ELSE pPc' = "send"]_vars
    /\ [](pPc \in {"proc", "send"} =>
            /\ pRes.err = NoErr
            /\ rawKind[pRes.linter.name] = "issues")
    /\ [](pPc \notin {"proc", "send"} => pRes = NoRes)
    /\ [](nChain = Cardinality(WithIssues) - Cardinality(QueuedWithIssues))
    /\ [](pPc = "proc" =>
            /\ pi \in Procs
            /\ \A p \in Procs : procCalls[p] = IF p < pi THEN nChain ELSE nChain - 1)
    /\ [](pPc # "proc" => \A p \in Procs : procCalls[p] = nChain)

C16_Witness ==
    /\ pPc = "proc"
    /\ pi = NumProcessors
    /\ lintResultsCh = <<>>
    /\ \E n \in Tasks : rawKind[n] \in {"error", "panic"}
    /\ \A n \in Tasks : pubCount[n] = 1
    /\ nChain = 1

\* C17: for an analyzer that returns an error (with or without issues) and
\* for one that panics, runLinterSafe returns an error and no issue (a fact
\* about each task of the list, looked at when Run is called); every
\* lintRes on lintResultsCh that has an error has no issue; the task whose
\* analyzer failed or panicked has its lintRes, sent once by its worker; and
\* the worker itself never panics.
C17_ErrorMeansNoFindings ==
    /\ runPc = "start" =>
          \A k \in DOMAIN linters : \A out \in LinterOutcomes(linters[k]) :
              (out.err \/ out.panicked) =>
                  /\ runLinterSafe(linters[k], out).err # NoErr
                  /\ runLinterSafe(linters[k], out).issues = <<>>
    /\ \A i \in DOMAIN lintResultsCh :
          lintResultsCh[i].err # NoErr => lintResultsCh[i].issues = <<>>
    /\ \A n \in Tasks :
          rawKind[n] \in {"error", "panic"} => pubCount[n] = 1 /\ executed[n] = 1
    /\ \A ws \in BagToSet(workers) : ws.pc # "panic"

C17_Witness ==
    /\ \E i \in DOMAIN lintResultsCh : lintResultsCh[i].err = LinterErr
    /\ \E i \in DOMAIN lintResultsCh : lintResultsCh[i].err = PanicErr
    /\ CopiesIn(Selecting, workers) = concurrency

\* C18: Process and Finish are called by the processing goroutine only, one
\* call at a time: every step in which a processor is called is a step of
\* that goroutine alone (no worker, nor Run, nor the waiter, nor the collector
\* moves in it), at its Process call or at its Finish call, and is one call,
\* on the processor the loop index names; the goroutine is at one call at
\* most, and at a Finish call only when it holds no lintRes in the chain.
C18_OneCallAtATime ==
    /\ [][(procCalls' # procCalls \/ finishLog' # finishLog) =>
            /\ pi \in Procs
            /\ \/ /\ pPc = "proc"
                  /\ procCalls' = [procCalls EXCEPT ![pi] = @ + 1]
                  /\ finishLog' = finishLog
               \/ /\ pPc = "finish"
                  /\ finishLog' = Append(finishLog, pi)
                  /\ procCalls' = procCalls
            /\ workers' = workers
            /\ runPc' = runPc
            /\ waiterPc' = waiterPc
            /\ cPc' = cPc]_vars
    /\ [](pPc \in {"proc", "finish"} => pi \in Procs)
    /\ [](pPc = "finish" => pRes = NoRes)

C18_Witness ==
    /\ pPc = "proc"
    /\ pi = NumProcessors
    /\ At("run") >= 1
    /\ cPc = "recv"

\* C19: outCh is closed only when Finish has returned on every processor; so
\* whoever sees the end of outCh comes after that: when the returned stream
\* is closed, and when Run's drain loop has ended (the report is logged, Run
\* goes on to collectIssues), every processor has been finalized.
Finalized == Range(finishLog) = Procs /\ pPc \in {"close", "done"}
C19_FinalizedBeforeClose ==
    /\ outClosed => Finalized
    /\ retClosed => Finalized
    /\ cPc = "done" => Finalized
    /\ errLog # <<>> => Finalized
    /\ (deadlineSeen /\ runPc \in {"collect", "returned"}) => Finalized

C19_Witness ==
    /\ retClosed
    /\ retIssues # <<>>
    /\ cancelled
    /\ Finalized

\* C20: tasksCh and lintResultsCh never hold more than len(linters) entries,
\* and neither send ever has to wait: Run at an enqueue finds room on
\* tasksCh, a worker running a task finds room on lintResultsCh, since the
\* tasks ever enqueued, and the lintRes ever sent plus the tasks being run,
\* are at most len(linters) whatever has been received. tasksCh is closed
\* when Run leaves the enqueue loop, with every entry enqueued, and not
\* before; nothing is enqueued after that.
C20_QueueBounds ==
    /\ Len(tasksCh) <= Len(linters)
    /\ Len(lintResultsCh) <= Len(linters)
    /\ sent <= Len(linters)
    /\ (runPc = "enqueue" /\ sent < Len(lcs)) => Len(tasksCh) < ChanCap(linters)
    /\ (\E ws \in BagToSet(workers) : ws.pc = "run") =>
          Len(lintResultsCh) < ChanCap(linters)
    /\ \A n \in 1..MaxTasks : pubCount[n] <= 1
    /\ Cardinality(Published) + At("run") <= Len(linters)
    /\ tasksClosed <=> runPc \in {"process", "check", "drain", "collect", "returned"}
    /\ tasksClosed => sent = Len(lcs) /\ Len(lcs) = Len(linters)

C20_Witness ==
    /\ Len(lintResultsCh) = MaxTasks
    /\ pPc = "idle"
    /\ tasksClosed
    /\ tasksCh = <<>>

====
